---- MODULE Spec2Model ----
(***************************************************************************)
(* State-machine model of harvest_all_pages (src/sol.py), the generic      *)
(* table harvester: one initial table read, a pagination loop capped at    *)
(* 200 iterations, and, when pagination was never available, a scroll      *)
(* loop capped at 100 iterations; every read is merged into all_rows       *)
(* through add_rows, which deduplicates on json.dumps(row, sort_keys=True).*)
(*                                                                         *)
(* A Row (a Python dict of column key -> cell text) is a sequence of       *)
(* <<key, value>> pairs in insertion order with pairwise distinct keys.    *)
(* Keys and values are small naturals standing for strings; the order of   *)
(* the naturals stands for the lexicographic order of the key strings.     *)
(***************************************************************************)
EXTENDS Integers, Sequences, FiniteSets, TLC

VARIABLES
    pc,              \* position of the control thread inside harvest_all_pages
    all_rows,        \* accumulated rows (line 218)
    seen_hashes,     \* fingerprints of the accumulated rows (line 219)
    paginated,       \* line 232 / 236
    pag_i,           \* iterations completed by the pagination loop (line 234)
    containers,      \* scroll containers chosen (lines 247-248)
    previous_count,  \* line 250
    current_count,   \* line 254
    idle_rounds,     \* line 251
    scroll_i,        \* iterations completed by the scroll loop (line 252)
    result,          \* value returned to the caller
    site,            \* kind of application behind the page: "paged" or "lazy"
    rendered,        \* lazy site: number of dataset rows loaded so far
    firstSeen,       \* history: rows read so far, each content at its first read
    rereads,         \* history: some read repeated a content read before
    everNext,        \* history: has_next_page returned True at least once
    sawFalse,        \* history: has_next_page returned False
    hasNextCalls,    \* history: number of has_next_page calls
    advances,        \* history: number of go_next_page calls
    reads,           \* history: number of extract_table_rows calls
    rounds,          \* history: scroll rounds whose read was merged
    lastGrowth,      \* history: last scroll round whose total differed from
                     \* the total of the round before it (round 1 counts)
    clickFailed,     \* history: the click of a go_next_page call raised
    earlier,         \* history: what the invocation before this one returned
    page,            \* single-call runs: the page a helper is called on
    next_btn,        \* single-call runs: the affordance has_next_page looks at
    rows_data,       \* single-call runs: what extract_table_rows returned
    answer           \* single-call runs: what has_next_page returned

vars == <<pc, all_rows, seen_hashes, paginated, pag_i, containers,
          previous_count, current_count, idle_rounds, scroll_i, result,
          site, rendered, firstSeen, rereads, everNext, sawFalse,
          hasNextCalls, advances, reads, rounds, lastGrowth,
          clickFailed, earlier, page, next_btn, rows_data, answer>>

\* The variables only the single-call runs and repeated invocations move.
callVars == <<earlier, page, next_btn, rows_data, answer>>

(***************************************************************************)
(* Bounds of the model.                                                    *)
(***************************************************************************)
NumData == 2     \* distinct row contents a paged site can render
MaxRead == 2     \* rows returned by one read of a paged site
LazyRows == 100  \* rows of the dataset behind a lazily loading site
MaxGrow == 2     \* rows that may finish loading between two reads
Window == 5      \* rows a lazily loading (virtualised) table shows at once
MaxCols == 2     \* header cells of a table in a single-call run
MaxDataRows == 2 \* data rows of a table in a single-call run

(***************************************************************************)
(* Program constants.                                                      *)
(***************************************************************************)
PAGE_CAP == 200
SCROLL_CAP == 100
IdleThreshold == 2

SCROLLABLE_CANDIDATES ==
    <<"table-container", "ReactVirtualized__Grid",
      "infinite-scroll-component", "ag-body-viewport">>

\* A local of harvest_all_pages that no assignment has bound yet.
Unbound == <<>>

\* A counter local of harvest_all_pages that no assignment has bound yet:
\* a number no count and no initial value (-1, 0) takes.
NoCount == -2

Min(a, b) == IF a < b THEN a ELSE b

(***************************************************************************)
(* Rows and their fingerprints.                                            *)
(***************************************************************************)
\* Row number i of the data, columns in the order name (1), price (2).
DataRow(i) == << <<1, i>>, <<2, i>> >>

\* The same content rendered with the columns in the other order.
SwappedRow(i) == << <<2, i>>, <<1, i>> >>

\* What two dicts must share to compare equal: the set of key/value pairs.
Content(row) == {row[i] : i \in 1..Len(row)}

RECURSIVE InsertByKey(_, _)
InsertByKey(p, s) ==
    IF s = <<>> THEN <<p>>
    ELSE IF p[1] <= Head(s)[1] THEN <<p>> \o s
    ELSE <<Head(s)>> \o InsertByKey(p, Tail(s))

RECURSIVE SortKeys(_)
SortKeys(row) ==
    IF row = <<>> THEN <<>>
    ELSE InsertByKey(Head(row), SortKeys(Tail(row)))

\* Mutant of json_dumps: sort_keys left out, the pairs stay in insertion order.
json_dumps_unsorted(row) == row

\* Mutant of json_dumps: only the first key of the sorted dict is dumped.
json_dumps_firstkey(row) == SubSeq(SortKeys(row), 1, 1)

\* h = json.dumps(row, sort_keys=True): the pairs serialised in key order.
json_dumps(row) == SortKeys(row)

(***************************************************************************)
(* add_rows: the deduplicating merge.  Returns the accumulator after the   *)
(* rows of new_rows were processed in order.                               *)
(***************************************************************************)
\* Mutant of add_rows: the fingerprint of an appended row is not recorded.
RECURSIVE add_rows_unrecorded(_, _, _)
add_rows_unrecorded(rows, seen, new_rows) ==
    IF new_rows = <<>> THEN [all_rows |-> rows, seen_hashes |-> seen]
    ELSE LET row == Head(new_rows)
             h == json_dumps(row)
         IN  IF h \notin seen
             THEN add_rows_unrecorded(Append(rows, row), seen, Tail(new_rows))
             ELSE add_rows_unrecorded(rows, seen, Tail(new_rows))

\* Mutant of add_rows: a new row is put in front of the accumulated rows.
RECURSIVE add_rows_front(_, _, _)
add_rows_front(rows, seen, new_rows) ==
    IF new_rows = <<>> THEN [all_rows |-> rows, seen_hashes |-> seen]
    ELSE LET row == Head(new_rows)
             h == json_dumps(row)
         IN  IF h \notin seen
             THEN add_rows_front(<<row>> \o rows, seen \cup {h}, Tail(new_rows))
             ELSE add_rows_front(rows, seen, Tail(new_rows))

\* Mutant of add_rows: every row is appended, seen or not.
RECURSIVE add_rows_unchecked(_, _, _)
add_rows_unchecked(rows, seen, new_rows) ==
    IF new_rows = <<>> THEN [all_rows |-> rows, seen_hashes |-> seen]
    ELSE LET row == Head(new_rows)
             h == json_dumps(row)
         IN  add_rows_unchecked(Append(rows, row), seen \cup {h},
                                Tail(new_rows))

\* Mutant of add_rows: the fingerprint of every row read is recorded, the
\* row itself is appended only while the accumulator is empty.
RECURSIVE add_rows_unappended(_, _, _)
add_rows_unappended(rows, seen, new_rows) ==
    IF new_rows = <<>> THEN [all_rows |-> rows, seen_hashes |-> seen]
    ELSE LET row == Head(new_rows)
             h == json_dumps(row)
         IN  IF h \notin seen /\ rows = <<>>
             THEN add_rows_unappended(Append(rows, row), seen \cup {h},
                                      Tail(new_rows))
             ELSE add_rows_unappended(rows, seen \cup {h}, Tail(new_rows))

RECURSIVE add_rows(_, _, _)
add_rows(rows, seen, new_rows) ==
    IF new_rows = <<>> THEN [all_rows |-> rows, seen_hashes |-> seen]
    ELSE LET row == Head(new_rows)
             h == json_dumps(row)
         IN  IF h \notin seen
             THEN add_rows(Append(rows, row), seen \cup {h}, Tail(new_rows))
             ELSE add_rows(rows, seen, Tail(new_rows))

(***************************************************************************)
(* The application behind the page.                                        *)
(***************************************************************************)
SeqsUpTo(S, n) == UNION {[1..k -> S] : k \in 0..n}

\* A paged site renders up to MaxRead rows per page, any content, repeats
\* allowed; the rows of one read share the column order of that render.
\* A render with the columns in the other order shows the first row only.
PagedReads ==
    SeqsUpTo({DataRow(i) : i \in 1..NumData}, MaxRead)
        \cup SeqsUpTo({SwappedRow(1)}, MaxRead)

\* A lazy site has loaded the first n rows of its dataset, n only grows,
\* and its virtualised table shows the last Window of them.
LazyWindow(n) ==
    LET first == IF n > Window THEN n - Window + 1 ELSE 1
    IN  [i \in 1..(n + 1 - first) |-> DataRow(first + i - 1)]

\* What extract_table_rows can return now: the rows, and what the site shows.
TableReads ==
    IF site = "paged"
    THEN {[rows |-> r, rendered |-> rendered] : r \in PagedReads}
    ELSE {[rows |-> LazyWindow(n), rendered |-> n] :
              n \in rendered..Min(rendered + MaxGrow, LazyRows)}

\* The state of the "next" affordance at one has_next_page call.  disabled
\* is the answer of is_disabled(); marked says the element itself matches
\* SEL_PAGINATION_DISABLED (as <a class="pagination-next" disabled> does,
\* which is no form control and so not disabled for is_disabled()); inner is
\* the outcome of next_btn.locator(SEL_PAGINATION_DISABLED).count(), which
\* looks at the elements inside the affordance.
AllButtons ==
    [exists : BOOLEAN, disabled : BOOLEAN, marked : BOOLEAN,
     inner : {"none", "match", "error"}, visible : BOOLEAN]

\* A lazily loading site exposes no next affordance.
Buttons == IF site = "paged" THEN AllButtons
           ELSE {b \in AllButtons : ~b.exists}

\* The scroll-container candidates that may be present on the page: a paged
\* site may have none; a lazily loading grid has its viewport containers.
PresenceCases ==
    IF site = "paged"
    THEN { {}, {"table-container"} }
    ELSE { {"ReactVirtualized__Grid", "ag-body-viewport"} }

(***************************************************************************)
(* extract_table_rows on an explicit table.                                *)
(*                                                                         *)
(* A text is [core, padded]: core stands for the text without surrounding  *)
(* whitespace (EmptyStr for none), padded says whitespace surrounds it.    *)
(* A table is [shape, head, counts, raises]:                               *)
(*   shape   "thead"   <thead><tr><th>..</th></tr></thead><tbody>..        *)
(*           "rolerow" every tr, the header one too, has role="row" and    *)
(*                     the header cells role="columnheader"                *)
(*           "plain"   no header markup: every tr sits in the tbody        *)
(*           "empty"   no tr at all                                        *)
(*   head    the texts of the cells of the first tr                        *)
(*   counts  the number of cells of each data tr, in document order        *)
(*   raises  reading the cells of the first tr raises (line 168)           *)
(* The cell in column k of data row j carries the text CellText(j, k).     *)
(***************************************************************************)
EmptyStr == 0

Text(core, padded) == [core |-> core, padded |-> padded]

\* s.strip()
strip(t) == t.core

\* f"col_{i}": sorts before the header texts 1 ("name") and 2 ("price").
ColKey(i) == i - 10

CellText(j, k) == Text(10 * j + k, k % 2 = 0)

HeaderTexts == {Text(EmptyStr, TRUE), Text(1, TRUE), Text(2, FALSE)}

\* The numbers of cells a data row may have under a header of h cells:
\* one fewer, as many, one more.
CellCounts(h) == {c \in {h - 1, h, h + 1} : c >= 0}

Tables ==
    {[shape |-> "empty", head |-> <<>>, counts |-> <<>>, raises |-> FALSE]}
    \cup
    {[shape |-> sh, head |-> hd, counts |-> cs, raises |-> rs] :
        sh \in {"thead", "rolerow", "plain"},
        hd \in SeqsUpTo(HeaderTexts, MaxCols),
        cs \in UNION {SeqsUpTo(CellCounts(h), MaxDataRows) : h \in 0..MaxCols},
        rs \in BOOLEAN}

\* The tables that exist: the cell counts fit the header, and a raise needs
\* the first row to be read at all.
RealTables ==
    {t \in Tables :
        /\ \A j \in 1..Len(t.counts) : t.counts[j] \in CellCounts(Len(t.head))
        /\ t.raises => (t.shape = "plain" \/ t.head = <<>>)}

DataCells(t, j) == [k \in 1..t.counts[j] |-> CellText(j, k)]

\* table.locator("tbody tr, tr"): every tr, in document order.
AllTr(t) ==
    IF t.shape = "empty" THEN <<>>
    ELSE <<t.head>> \o [j \in 1..Len(t.counts) |-> DataCells(t, j)]

\* ....nth(r).locator("th, td, [role='cell']").all_text_contents()
TrCells(t, r) == IF r + 1 <= Len(AllTr(t)) THEN AllTr(t)[r + 1] ELSE <<>>

\* table.locator("thead tr th, thead th, [role='columnheader']")
HeaderQuery(t) == IF t.shape \in {"thead", "rolerow"} THEN t.head ELSE <<>>

\* table.locator("tbody tr, tr[role='row']").count()
CountedRows(t) ==
    IF t.shape = "empty" THEN 0
    ELSE IF t.shape = "thead" THEN Len(t.counts)
    ELSE Len(t.counts) + 1

\* [h.strip() or f"col_{i}" for i, h in enumerate(texts)]
header_keys(texts) ==
    [i \in 1..Len(texts) |->
        IF strip(texts[i]) = EmptyStr THEN ColKey(i - 1) ELSE strip(texts[i])]

\* Lines 156-172: the headers and the index of the first data row.
headers_and_start(t) ==
    LET headers == header_keys(HeaderQuery(t))
    IN  IF headers = <<>>
        THEN IF t.raises
             THEN [headers |-> <<>>, row_start_idx |-> 0]
             ELSE [headers |-> header_keys(TrCells(t, 0)),
                   row_start_idx |-> 1]
        ELSE [headers |-> headers, row_start_idx |-> 1]

\* Lines 175-177.
row_count(t) == IF CountedRows(t) = 0 THEN Len(AllTr(t)) ELSE CountedRows(t)

\* d[k] = v on a dict held as a sequence of pairs in insertion order.
dict_set(d, k, v) ==
    IF \E i \in 1..Len(d) : d[i][1] = k
    THEN [i \in 1..Len(d) |-> IF d[i][1] = k THEN <<k, v>> ELSE d[i]]
    ELSE Append(d, <<k, v>>)

RECURSIVE dict_from(_, _, _)
dict_from(d, keys, vals) ==
    IF keys = <<>> THEN d
    ELSE dict_from(dict_set(d, Head(keys), Head(vals)), Tail(keys), Tail(vals))

\* Lines 182-187: pad with "" or truncate to the header count.
normalize(headers, cells) ==
    IF headers # <<>> /\ Len(cells) # Len(headers)
    THEN IF Len(cells) < Len(headers)
         THEN cells \o [i \in 1..(Len(headers) - Len(cells)) |->
                            Text(EmptyStr, FALSE)]
         ELSE SubSeq(cells, 1, Len(headers))
    ELSE cells

\* Lines 181-191: the dict of one data row.
build_row(headers, cells0) ==
    LET cells == normalize(headers, cells0)
    IN  IF headers # <<>>
        THEN dict_from(<<>>, headers,
                       [i \in 1..Len(headers) |->
                           IF i <= Len(cells) THEN strip(cells[i])
                           ELSE EmptyStr])
        ELSE dict_from(<<>>,
                       [i \in 1..Len(cells) |-> ColKey(i - 1)],
                       [i \in 1..Len(cells) |-> strip(cells[i])])

\* Lines 155-192: the rows read from one table.
table_rows(t) ==
    LET hs == headers_and_start(t)
        first == hs.row_start_idx
        n == row_count(t)
    IN  [i \in 1..(IF n > first THEN n - first ELSE 0) |->
            build_row(hs.headers, TrCells(t, first + i - 1))]

\* A page: the first element matching role=table and the first matching
\* table, each absent, hidden or visible, and the table each one holds.
HandleStates == {"absent", "hidden", "visible"}

\* The table of the handle that is not under study.
OtherTable ==
    [shape |-> "plain", head |-> <<Text(2, FALSE)>>, counts |-> <<1>>,
     raises |-> FALSE]

Pages ==
    [aria : HandleStates, fallback : HandleStates,
     aria_table : RealTables, fallback_table : {OtherTable}]
    \cup
    [aria : HandleStates, fallback : {"visible"},
     aria_table : {OtherTable}, fallback_table : RealTables]

\* loc.first.count() > 0 and loc.first.is_visible()
usable(handle) == handle = "visible"

\* Mutant of select_table: the generic table is tried first.
select_table_generic_first(p) ==
    IF usable(p.fallback) THEN <<p.fallback_table>>
    ELSE IF usable(p.aria) THEN <<p.aria_table>>
    ELSE <<>>

\* Lines 148-152: the table to read, <<>> for None.
select_table(p) ==
    IF usable(p.aria) THEN <<p.aria_table>>
    ELSE IF usable(p.fallback) THEN <<p.fallback_table>>
    ELSE <<>>

\* Lines 139-194.
extract_table_rows(p) ==
    IF select_table(p) # <<>> THEN table_rows(select_table(p)[1]) ELSE <<>>

(***************************************************************************)
(* has_next_page.                                                          *)
(***************************************************************************)
has_next_page(btn) ==
    IF ~btn.exists THEN FALSE
    ELSE IF btn.disabled THEN FALSE
    ELSE IF btn.inner = "match" THEN FALSE
    ELSE btn.visible

(***************************************************************************)
(* History bookkeeping (not program state).                                *)
(***************************************************************************)
RECURSIVE FirstOccurrences(_, _)
FirstOccurrences(log, new_rows) ==
    IF new_rows = <<>> THEN log
    ELSE IF \E j \in 1..Len(log) : Content(log[j]) = Content(Head(new_rows))
         THEN FirstOccurrences(log, Tail(new_rows))
         ELSE FirstOccurrences(Append(log, Head(new_rows)), Tail(new_rows))

Repeats(log, new_rows) ==
    \/ \E i \in 1..Len(new_rows), j \in 1..Len(log) :
           Content(new_rows[i]) = Content(log[j])
    \/ \E i, j \in 1..Len(new_rows) :
           i < j /\ Content(new_rows[i]) = Content(new_rows[j])

\* add_rows(extract_table_rows(page)): one read of the table, merged.
ReadAndMerge(t) ==
    LET acc == add_rows(all_rows, seen_hashes, t.rows)
    IN  /\ all_rows' = acc.all_rows
        /\ seen_hashes' = acc.seen_hashes
        /\ rendered' = t.rendered
        /\ firstSeen' = FirstOccurrences(firstSeen, t.rows)
        /\ rereads' = (rereads \/ Repeats(firstSeen, t.rows))
        /\ reads' = reads + 1

(***************************************************************************)
(* Initial state: harvest_all_pages entered, the accumulator created.      *)
(***************************************************************************)
Init ==
    /\ pc = "initial_read"
    /\ all_rows = <<>>
    /\ seen_hashes = {}
    /\ paginated = FALSE
    /\ pag_i = 0
    /\ containers = Unbound
    /\ previous_count = NoCount
    /\ current_count = NoCount
    /\ idle_rounds = NoCount
    /\ scroll_i = 0
    /\ result = Unbound
    /\ site \in {"paged", "lazy"}
    /\ rendered = 0
    /\ firstSeen = <<>>
    /\ rereads = FALSE
    /\ everNext = FALSE
    /\ sawFalse = FALSE
    /\ hasNextCalls = 0
    /\ advances = 0
    /\ reads = 0
    /\ rounds = 0
    /\ lastGrowth = 0
    /\ clickFailed = FALSE
    /\ earlier = "none"
    /\ page = Unbound
    /\ next_btn = Unbound
    /\ rows_data = Unbound
    /\ answer = Unbound

(***************************************************************************)
(* Steps of harvest_all_pages.                                             *)
(***************************************************************************)
\* Lines 231-232: the first read, then paginated = False.
InitialRead ==
    /\ pc = "initial_read"
    /\ \E t \in TableReads : ReadAndMerge(t)
    /\ paginated' = FALSE
    /\ pag_i' = 0
    /\ pc' = "pag_loop"
    /\ UNCHANGED <<containers, previous_count, current_count, idle_rounds,
                   scroll_i, result, site, everNext, sawFalse, hasNextCalls,
                   advances, rounds, lastGrowth>>
    /\ UNCHANGED <<clickFailed, callVars>>

\* Mutant of PagCheck: a True answer does not set paginated.
PagCheck_unflagged ==
    /\ pc = "pag_loop"
    /\ pag_i < PAGE_CAP
    /\ \E btn \in Buttons :
          IF has_next_page(btn)
          THEN /\ pc' = "go_next"
               /\ everNext' = TRUE
               /\ sawFalse' = sawFalse
          ELSE /\ pc' = "pag_done"
               /\ everNext' = everNext
               /\ sawFalse' = TRUE
    /\ hasNextCalls' = hasNextCalls + 1
    /\ UNCHANGED <<all_rows, seen_hashes, paginated, pag_i, containers,
                   previous_count, current_count, idle_rounds, scroll_i,
                   result, site, rendered, firstSeen, rereads, advances,
                   reads, rounds, lastGrowth>>
    /\ UNCHANGED <<clickFailed, callVars>>

\* Mutant of PagCheck: the loop is allowed one iteration more than the cap.
PagCheck_offbyone ==
    /\ pc = "pag_loop"
    /\ pag_i < PAGE_CAP + 1
    /\ \E btn \in Buttons :
          IF has_next_page(btn)
          THEN /\ paginated' = TRUE
               /\ pc' = "go_next"
               /\ everNext' = TRUE
               /\ sawFalse' = sawFalse
          ELSE /\ paginated' = paginated
               /\ pc' = "pag_done"
               /\ everNext' = everNext
               /\ sawFalse' = TRUE
    /\ hasNextCalls' = hasNextCalls + 1
    /\ UNCHANGED <<all_rows, seen_hashes, pag_i, containers, previous_count,
                   current_count, idle_rounds, scroll_i, result, site,
                   rendered, firstSeen, rereads, advances, reads, rounds,
                   lastGrowth>>
    /\ UNCHANGED <<clickFailed, callVars>>

\* Mutant of PagCheck: a False answer does not leave the loop (no break).
PagCheck_nobreak ==
    /\ pc = "pag_loop"
    /\ pag_i < PAGE_CAP
    /\ \E btn \in Buttons :
          IF has_next_page(btn)
          THEN /\ paginated' = TRUE
               /\ pc' = "go_next"
               /\ everNext' = TRUE
               /\ sawFalse' = sawFalse
               /\ pag_i' = pag_i
          ELSE /\ paginated' = paginated
               /\ pc' = "pag_loop"
               /\ everNext' = everNext
               /\ sawFalse' = TRUE
               /\ pag_i' = pag_i + 1
    /\ hasNextCalls' = hasNextCalls + 1
    /\ UNCHANGED <<all_rows, seen_hashes, containers, previous_count,
                   current_count, idle_rounds, scroll_i, result, site,
                   rendered, firstSeen, rereads, advances, reads, rounds,
                   lastGrowth>>
    /\ UNCHANGED <<clickFailed, callVars>>

\* Lines 234-236 and 239-240: one has_next_page call inside the capped loop.
PagCheck ==
    /\ pc = "pag_loop"
    /\ pag_i < PAGE_CAP
    /\ \E btn \in Buttons :
          IF has_next_page(btn)
          THEN /\ paginated' = TRUE
               /\ pc' = "go_next"
               /\ everNext' = TRUE
               /\ sawFalse' = sawFalse
          ELSE /\ paginated' = paginated
               /\ pc' = "pag_done"
               /\ everNext' = everNext
               /\ sawFalse' = TRUE
    /\ hasNextCalls' = hasNextCalls + 1
    /\ UNCHANGED <<all_rows, seen_hashes, pag_i, containers, previous_count,
                   current_count, idle_rounds, scroll_i, result, site,
                   rendered, firstSeen, rereads, advances, reads, rounds,
                   lastGrowth>>
    /\ UNCHANGED <<clickFailed, callVars>>

\* Mutant of GoNextPage: a click that raised is caught and tried again.
GoNextPage_retry ==
    /\ pc = "go_next"
    /\ advances' = advances + 1
    /\ \E clicked \in BOOLEAN :
          /\ pc' = IF clicked THEN "pag_read" ELSE "go_next"
          /\ clickFailed' = ~clicked
    /\ UNCHANGED <<all_rows, seen_hashes, paginated, pag_i, containers,
                   previous_count, current_count, idle_rounds, scroll_i,
                   result, site, rendered, firstSeen, rereads, everNext,
                   sawFalse, hasNextCalls, reads, rounds, lastGrowth>>
    /\ UNCHANGED callVars

\* Mutant of GoNextPage: after the click the iteration ends without a read.
GoNextPage_skipread ==
    /\ pc = "go_next"
    /\ advances' = advances + 1
    /\ \E clicked \in BOOLEAN :
          /\ pc' = IF clicked THEN "pag_loop" ELSE "failed"
          /\ pag_i' = IF clicked THEN pag_i + 1 ELSE pag_i
          /\ clickFailed' = ~clicked
    /\ UNCHANGED <<all_rows, seen_hashes, paginated, containers,
                   previous_count, current_count, idle_rounds, scroll_i,
                   result, site, rendered, firstSeen, rereads, everNext,
                   sawFalse, hasNextCalls, reads, rounds, lastGrowth>>
    /\ UNCHANGED callVars

\* Lines 237, 211-214: go_next_page; the click raises when the affordance
\* is gone, and nothing in harvest_all_pages catches it.
GoNextPage ==
    /\ pc = "go_next"
    /\ advances' = advances + 1
    /\ \E clicked \in BOOLEAN :
          /\ pc' = IF clicked THEN "pag_read" ELSE "failed"
          /\ clickFailed' = ~clicked
    /\ UNCHANGED <<all_rows, seen_hashes, paginated, pag_i, containers,
                   previous_count, current_count, idle_rounds, scroll_i,
                   result, site, rendered, firstSeen, rereads, everNext,
                   sawFalse, hasNextCalls, reads, rounds, lastGrowth>>
    /\ UNCHANGED callVars

\* Line 238: the read after an advance, merged; the iteration ends.
PagRead ==
    /\ pc = "pag_read"
    /\ \E t \in TableReads : ReadAndMerge(t)
    /\ pag_i' = pag_i + 1
    /\ pc' = "pag_loop"
    /\ UNCHANGED <<paginated, containers, previous_count, current_count,
                   idle_rounds, scroll_i, result, site, everNext, sawFalse,
                   hasNextCalls, advances, rounds, lastGrowth>>
    /\ UNCHANGED <<clickFailed, callVars>>

\* Mutant of PagCapReached: running out of iterations is raised as an error.
PagCapReached_raises ==
    /\ pc = "pag_loop"
    /\ pag_i = PAGE_CAP
    /\ pc' = "failed"
    /\ UNCHANGED <<all_rows, seen_hashes, paginated, pag_i, containers,
                   previous_count, current_count, idle_rounds, scroll_i,
                   result, site, rendered, firstSeen, rereads, everNext,
                   sawFalse, hasNextCalls, advances, reads, rounds,
                   lastGrowth>>
    /\ UNCHANGED <<clickFailed, callVars>>

\* Line 234: range(200) is exhausted.
PagCapReached ==
    /\ pc = "pag_loop"
    /\ pag_i = PAGE_CAP
    /\ pc' = "pag_done"
    /\ UNCHANGED <<all_rows, seen_hashes, paginated, pag_i, containers,
                   previous_count, current_count, idle_rounds, scroll_i,
                   result, site, rendered, firstSeen, rereads, everNext,
                   sawFalse, hasNextCalls, advances, reads, rounds,
                   lastGrowth>>
    /\ UNCHANGED <<clickFailed, callVars>>

\* Lines 242-243: if paginated: return all_rows.
ReturnPaginated ==
    /\ pc = "pag_done"
    /\ paginated
    /\ result' = all_rows
    /\ pc' = "done"
    /\ UNCHANGED <<all_rows, seen_hashes, paginated, pag_i, containers,
                   previous_count, current_count, idle_rounds, scroll_i,
                   site, rendered, firstSeen, rereads, everNext, sawFalse,
                   hasNextCalls, advances, reads, rounds, lastGrowth>>
    /\ UNCHANGED <<clickFailed, callVars>>

\* Mutant of SelectContainers: previous_count starts at 0, a possible total.
SelectContainers_zero ==
    /\ pc = "pag_done"
    /\ ~paginated
    /\ \E present \in PresenceCases :
          LET found == SelectSeq(SCROLLABLE_CANDIDATES,
                                 LAMBDA c : c \in present)
          IN  containers' = IF found # <<>> THEN found ELSE <<"body">>
    /\ previous_count' = 0
    /\ idle_rounds' = 0
    /\ scroll_i' = 0
    /\ pc' = "scroll_loop"
    /\ UNCHANGED <<all_rows, seen_hashes, paginated, pag_i, current_count,
                   result, site, rendered, firstSeen, rereads, everNext,
                   sawFalse, hasNextCalls, advances, reads, rounds,
                   lastGrowth>>
    /\ UNCHANGED <<clickFailed, callVars>>

\* Lines 247-251: the candidates present on the page, or the body.
SelectContainers ==
    /\ pc = "pag_done"
    /\ ~paginated
    /\ \E present \in PresenceCases :
          LET found == SelectSeq(SCROLLABLE_CANDIDATES,
                                 LAMBDA c : c \in present)
          IN  containers' = IF found # <<>> THEN found ELSE <<"body">>
    /\ previous_count' = -1
    /\ idle_rounds' = 0
    /\ scroll_i' = 0
    /\ pc' = "scroll_loop"
    /\ UNCHANGED <<all_rows, seen_hashes, paginated, pag_i, current_count,
                   result, site, rendered, firstSeen, rereads, everNext,
                   sawFalse, hasNextCalls, advances, reads, rounds,
                   lastGrowth>>
    /\ UNCHANGED <<clickFailed, callVars>>

\* Mutant of ScrollRead: a round with growth does not reset idle_rounds.
ScrollRead_noreset ==
    /\ pc = "scroll_loop"
    /\ scroll_i < SCROLL_CAP
    /\ \E t \in TableReads : ReadAndMerge(t)
    /\ current_count' = Len(all_rows')
    /\ idle_rounds' = IF current_count' = previous_count
                      THEN idle_rounds + 1 ELSE idle_rounds
    /\ rounds' = rounds + 1
    /\ lastGrowth' = IF rounds = 0 \/ Len(all_rows') # Len(all_rows)
                     THEN rounds + 1 ELSE lastGrowth
    /\ pc' = "scroll_tail"
    /\ UNCHANGED <<paginated, pag_i, containers, previous_count, scroll_i,
                   result, site, everNext, sawFalse, hasNextCalls, advances>>
    /\ UNCHANGED <<clickFailed, callVars>>

\* Mutant of ScrollRead: the rows read in a scroll round are not merged.
ScrollRead_unmerged ==
    /\ pc = "scroll_loop"
    /\ scroll_i < SCROLL_CAP
    /\ \E t \in TableReads :
          /\ rendered' = t.rendered
          /\ firstSeen' = FirstOccurrences(firstSeen, t.rows)
          /\ rereads' = (rereads \/ Repeats(firstSeen, t.rows))
    /\ reads' = reads + 1
    /\ all_rows' = all_rows
    /\ seen_hashes' = seen_hashes
    /\ current_count' = Len(all_rows')
    /\ idle_rounds' = IF current_count' = previous_count
                      THEN idle_rounds + 1 ELSE 0
    /\ rounds' = rounds + 1
    /\ lastGrowth' = IF rounds = 0 \/ Len(all_rows') # Len(all_rows)
                     THEN rounds + 1 ELSE lastGrowth
    /\ pc' = "scroll_tail"
    /\ UNCHANGED <<paginated, pag_i, containers, previous_count, scroll_i,
                   result, site, everNext, sawFalse, hasNextCalls, advances>>
    /\ UNCHANGED <<clickFailed, callVars>>

\* Lines 252-258: one scroll round: read, merge, count, compare.
ScrollRead ==
    /\ pc = "scroll_loop"
    /\ scroll_i < SCROLL_CAP
    /\ \E t \in TableReads : ReadAndMerge(t)
    /\ current_count' = Len(all_rows')
    /\ idle_rounds' = IF current_count' = previous_count
                      THEN idle_rounds + 1 ELSE 0
    /\ rounds' = rounds + 1
    /\ lastGrowth' = IF rounds = 0 \/ Len(all_rows') # Len(all_rows)
                     THEN rounds + 1 ELSE lastGrowth
    /\ pc' = "scroll_tail"
    /\ UNCHANGED <<paginated, pag_i, containers, previous_count, scroll_i,
                   result, site, everNext, sawFalse, hasNextCalls, advances>>
    /\ UNCHANGED <<clickFailed, callVars>>

\* The rest of the loop body: remember the total, stop at the idle
\* threshold, otherwise scroll the containers and go round again.
ScrollTail ==
    /\ pc = "scroll_tail"
    /\ previous_count' = current_count
    /\ IF idle_rounds >= IdleThreshold
       THEN /\ pc' = "scroll_done"
            /\ scroll_i' = scroll_i
       ELSE /\ pc' = "scroll_loop"
            /\ scroll_i' = scroll_i + 1
    /\ UNCHANGED <<all_rows, seen_hashes, paginated, pag_i, containers,
                   current_count, idle_rounds, result, site, rendered,
                   firstSeen, rereads, everNext, sawFalse, hasNextCalls,
                   advances, reads, rounds, lastGrowth>>
    /\ UNCHANGED <<clickFailed, callVars>>

\* Line 252: range(100) is exhausted.
ScrollCapReached ==
    /\ pc = "scroll_loop"
    /\ scroll_i = SCROLL_CAP
    /\ pc' = "scroll_done"
    /\ UNCHANGED <<all_rows, seen_hashes, paginated, pag_i, containers,
                   previous_count, current_count, idle_rounds, scroll_i,
                   result, site, rendered, firstSeen, rereads, everNext,
                   sawFalse, hasNextCalls, advances, reads, rounds,
                   lastGrowth>>
    /\ UNCHANGED <<clickFailed, callVars>>

\* After the scroll loop: return all_rows.
ScrollReturn ==
    /\ pc = "scroll_done"
    /\ result' = all_rows
    /\ pc' = "done"
    /\ UNCHANGED <<all_rows, seen_hashes, paginated, pag_i, containers,
                   previous_count, current_count, idle_rounds, scroll_i,
                   site, rendered, firstSeen, rereads, everNext, sawFalse,
                   hasNextCalls, advances, reads, rounds, lastGrowth>>
    /\ UNCHANGED <<clickFailed, callVars>>

Next ==
    \/ InitialRead
    \/ PagCheck
    \/ GoNextPage
    \/ PagRead
    \/ PagCapReached
    \/ ReturnPaginated
    \/ SelectContainers
    \/ ScrollRead
    \/ ScrollTail
    \/ ScrollCapReached
    \/ ScrollReturn

Spec == Init /\ [][Next]_vars

\* The control thread is never suspended for ever: every wait is bounded by
\* a timeout, so a step that can be taken is taken.
FairSpec == Spec /\ WF_vars(Next)

Terminated == pc \in {"done", "failed"}

(***************************************************************************)
(* Single calls of the helpers.  A harvest that has read its first page    *)
(* (one row accumulated) calls extract_table_rows on an explicit page and  *)
(* merges what it returns, or calls has_next_page on an explicit           *)
(* affordance.                                                             *)
(***************************************************************************)
InitCall ==
    /\ pc \in {"page_ready", "button_ready"}
    /\ all_rows = <<DataRow(1)>>
    /\ seen_hashes = {json_dumps(DataRow(1))}
    /\ paginated = (pc = "page_ready")
    /\ pag_i = 0
    /\ containers = Unbound
    /\ previous_count = NoCount
    /\ current_count = NoCount
    /\ idle_rounds = NoCount
    /\ scroll_i = 0
    /\ result = Unbound
    /\ site = "paged"
    /\ rendered = 0
    /\ firstSeen = <<DataRow(1)>>
    /\ rereads = FALSE
    /\ everNext = (pc = "page_ready")
    /\ sawFalse = FALSE
    /\ hasNextCalls = (IF pc = "page_ready" THEN 1 ELSE 0)
    /\ advances = (IF pc = "page_ready" THEN 1 ELSE 0)
    /\ reads = 1
    /\ rounds = 0
    /\ lastGrowth = 0
    /\ clickFailed = FALSE
    /\ earlier = "none"
    /\ IF pc = "page_ready"
       THEN page \in Pages /\ next_btn = Unbound
       ELSE page = Unbound /\ next_btn \in AllButtons
    /\ rows_data = Unbound
    /\ answer = Unbound

\* Line 239 (231, 254), right-hand side: extract_table_rows(page).
ExtractTableRows ==
    /\ pc = "page_ready"
    /\ rows_data' = extract_table_rows(page)
    /\ pc' = "extracted"
    /\ UNCHANGED <<all_rows, seen_hashes, paginated, pag_i, containers,
                   previous_count, current_count, idle_rounds, scroll_i,
                   result, site, rendered, firstSeen, rereads, everNext,
                   sawFalse, hasNextCalls, advances, reads, rounds,
                   lastGrowth, clickFailed, earlier, page, next_btn, answer>>

\* Line 240: add_rows(rows).
MergeRead ==
    /\ pc = "extracted"
    /\ LET m == add_rows(all_rows, seen_hashes, rows_data)
       IN  /\ all_rows' = m.all_rows
           /\ seen_hashes' = m.seen_hashes
    /\ firstSeen' = FirstOccurrences(firstSeen, rows_data)
    /\ rereads' = (rereads \/ Repeats(firstSeen, rows_data))
    /\ reads' = reads + 1
    /\ pc' = "merged"
    /\ UNCHANGED <<paginated, pag_i, containers, previous_count,
                   current_count, idle_rounds, scroll_i, result, site,
                   rendered, everNext, sawFalse, hasNextCalls, advances,
                   rounds, lastGrowth, clickFailed, callVars>>

\* Line 235, the condition: has_next_page(page).
HasNextPage ==
    /\ pc = "button_ready"
    /\ answer' = has_next_page(next_btn)
    /\ hasNextCalls' = hasNextCalls + 1
    /\ pc' = "answered"
    /\ UNCHANGED <<all_rows, seen_hashes, paginated, pag_i, containers,
                   previous_count, current_count, idle_rounds, scroll_i,
                   result, site, rendered, firstSeen, rereads, everNext,
                   sawFalse, advances, reads, rounds, lastGrowth,
                   clickFailed, earlier, page, next_btn, rows_data>>

NextCall ==
    \/ ExtractTableRows
    \/ MergeRead
    \/ HasNextPage

SpecCall == InitCall /\ [][NextCall]_vars

(***************************************************************************)
(* Two successive invocations of harvest_all_pages on a paged site.  The   *)
(* history variables are those of the running invocation; earlier says     *)
(* whether the invocation before it had collected row 1.  A paged site     *)
(* offers at most NumData distinct rows, so its scroll loop ends at the    *)
(* idle threshold and the step at the scroll cap is never taken.           *)
(***************************************************************************)
\* Mutant of Invoke: seen_hashes outlives the invocation.
Invoke_shared ==
    /\ pc \in {"done", "failed"}
    /\ earlier = "none"
    /\ earlier' = IF \E j \in 1..Len(all_rows) :
                        Content(all_rows[j]) = Content(DataRow(1))
                  THEN "collected" ELSE "without"
    /\ pc' = "initial_read"
    /\ all_rows' = <<>>
    /\ seen_hashes' = seen_hashes
    /\ paginated' = FALSE
    /\ pag_i' = 0
    /\ containers' = Unbound
    /\ previous_count' = NoCount
    /\ current_count' = NoCount
    /\ idle_rounds' = NoCount
    /\ scroll_i' = 0
    /\ result' = Unbound
    /\ rendered' = 0
    /\ firstSeen' = <<>>
    /\ rereads' = FALSE
    /\ everNext' = FALSE
    /\ sawFalse' = FALSE
    /\ hasNextCalls' = 0
    /\ advances' = 0
    /\ reads' = 0
    /\ rounds' = 0
    /\ lastGrowth' = 0
    /\ clickFailed' = FALSE
    /\ UNCHANGED <<site, page, next_btn, rows_data, answer>>

\* Lines 216-219: harvest_all_pages is entered again; all_rows and
\* seen_hashes are locals, created empty.
Invoke ==
    /\ pc \in {"done", "failed"}
    /\ earlier = "none"
    /\ earlier' = IF \E j \in 1..Len(all_rows) :
                        Content(all_rows[j]) = Content(DataRow(1))
                  THEN "collected" ELSE "without"
    /\ pc' = "initial_read"
    /\ all_rows' = <<>>
    /\ seen_hashes' = {}
    /\ paginated' = FALSE
    /\ pag_i' = 0
    /\ containers' = Unbound
    /\ previous_count' = NoCount
    /\ current_count' = NoCount
    /\ idle_rounds' = NoCount
    /\ scroll_i' = 0
    /\ result' = Unbound
    /\ rendered' = 0
    /\ firstSeen' = <<>>
    /\ rereads' = FALSE
    /\ everNext' = FALSE
    /\ sawFalse' = FALSE
    /\ hasNextCalls' = 0
    /\ advances' = 0
    /\ reads' = 0
    /\ rounds' = 0
    /\ lastGrowth' = 0
    /\ clickFailed' = FALSE
    /\ UNCHANGED <<site, page, next_btn, rows_data, answer>>

InitAgain == Init /\ site = "paged"

NextAgain ==
    \/ InitialRead
    \/ PagCheck
    \/ GoNextPage
    \/ PagRead
    \/ PagCapReached
    \/ ReturnPaginated
    \/ SelectContainers
    \/ ScrollRead
    \/ ScrollTail
    \/ ScrollReturn
    \/ Invoke

SpecAgain == InitAgain /\ [][NextAgain]_vars

(***************************************************************************)
(* Helpers of the properties.                                              *)
(***************************************************************************)
IsPrefix(s, t) == Len(s) <= Len(t) /\ SubSeq(t, 1, Len(s)) = s

Fingerprints(rows) == {json_dumps(rows[i]) : i \in 1..Len(rows)}

PaginationPcs == {"pag_loop", "go_next", "pag_read"}

\* The scroll path was entered: its first step binds containers.
ScrollEntered == containers # Unbound

(***************************************************************************)
(* C1: in every reachable state of a harvest, after the initial read and   *)
(* after every merge of either loop, no two rows of all_rows have the same *)
(* fingerprint, whatever the reads repeat.                                 *)
(***************************************************************************)
C1_NoSharedFingerprint ==
    Cardinality(Fingerprints(all_rows)) = Len(all_rows)

\* A harvest that ended with two rows after some read repeated a content.
C1_Witness ==
    /\ pc = "done"
    /\ rereads
    /\ reads >= 2
    /\ Len(all_rows) = 2

(***************************************************************************)
(* C2: from any accumulator with which the harvest can call add_rows, and  *)
(* for any read R, merging R and then R again leaves the accumulator (rows *)
(* and their count) after the second merge as it was after the first.      *)
(***************************************************************************)
C2_MergeTwice ==
    pc \in {"initial_read", "pag_read", "scroll_loop"} =>
    \A R \in PagedReads \cup {t.rows : t \in TableReads} :
        LET once == add_rows(all_rows, seen_hashes, R)
            twice == add_rows(once.all_rows, once.seen_hashes, R)
        IN  /\ twice.all_rows = once.all_rows
            /\ Len(twice.all_rows) = Len(once.all_rows)

\* A non-empty accumulator to which the first merge of some R adds a row.
C2_Witness ==
    /\ all_rows # <<>>
    /\ \E R \in PagedReads :
           Len(add_rows(all_rows, seen_hashes, R).all_rows) > Len(all_rows)

(***************************************************************************)
(* C3: at every step the accumulated sequence before the step is a prefix  *)
(* of the sequence after it, and the sequence lists the distinct rows read *)
(* so far in the order in which each was first read; so does the result.   *)
(***************************************************************************)
C3_OrderPreserved ==
    /\ [][IsPrefix(all_rows, all_rows')]_vars
    /\ [](all_rows = firstSeen)
    /\ [](pc = "done" => result = firstSeen)

\* A finished harvest of three reads or more that returned two rows or more.
C3_Witness ==
    /\ pc = "done"
    /\ reads >= 3
    /\ Len(result) >= 2

(***************************************************************************)
(* C4: once has_next_page has returned True, no step of the scroll path is *)
(* ever executed; the scroll path is entered only when the first           *)
(* has_next_page call returned False.                                      *)
(***************************************************************************)
C4_StrategyExclusive ==
    /\ everNext =>
          /\ pc \notin {"scroll_loop", "scroll_tail", "scroll_done"}
          /\ ~ScrollEntered
          /\ rounds = 0
          /\ scroll_i = 0
    /\ ScrollEntered =>
          /\ hasNextCalls = 1
          /\ sawFalse
          /\ ~everNext

\* A harvest that paginated, saw the last page and returned.
C4_Witness ==
    /\ pc = "done"
    /\ everNext
    /\ sawFalse
    /\ site = "paged"

(***************************************************************************)
(* C5: when the Nth has_next_page call is the first to return False,       *)
(* exactly N-1 go_next_page calls have been made, and after that answer    *)
(* the pagination loop makes no further call.                              *)
(***************************************************************************)
C5_PaginationTermination ==
    sawFalse =>
        /\ advances = hasNextCalls - 1
        /\ pc \notin PaginationPcs

\* The third has_next_page call was the first to return False.
C5_Witness ==
    /\ sawFalse
    /\ hasNextCalls = 3
    /\ advances = 2
    /\ pc = "done"

(***************************************************************************)
(* C6: in scroll mode, with K the last round whose total differed from the *)
(* round before, the loop ends at round K + IdleThreshold exactly, unless  *)
(* the cap of SCROLL_CAP rounds ends it before that round; it never goes   *)
(* round again once IdleThreshold consecutive no-growth rounds were seen.  *)
(***************************************************************************)
C6_ScrollTermination ==
    /\ pc = "scroll_done" =>
          \/ rounds = lastGrowth + IdleThreshold
          \/ rounds = SCROLL_CAP /\ rounds < lastGrowth + IdleThreshold
    /\ pc = "scroll_loop" /\ rounds > 0 =>
          rounds < lastGrowth + IdleThreshold

\* C6 as stated: the loop never ends earlier than round K + IdleThreshold.
C6_Original ==
    pc = "scroll_done" => rounds = lastGrowth + IdleThreshold

\* The totals stopped growing after round 3 and the loop ended at round 5.
C6_Witness ==
    /\ pc = "scroll_done"
    /\ lastGrowth = 3
    /\ rounds = lastGrowth + IdleThreshold
    /\ Len(all_rows) >= 3

(***************************************************************************)
(* C7: every harvest reaches a terminal state, also when has_next_page     *)
(* answers True for ever or every scroll round brings new rows; the        *)
(* pagination loop makes at most PAGE_CAP iterations and go_next_page      *)
(* calls, the scroll loop at most SCROLL_CAP iterations.                   *)
(***************************************************************************)
C7_Halts ==
    /\ <>Terminated
    /\ [](/\ pag_i <= PAGE_CAP
          /\ advances <= PAGE_CAP
          /\ scroll_i <= SCROLL_CAP
          /\ rounds <= SCROLL_CAP)

\* A scroll harvest that was still growing in its last, SCROLL_CAP-th round.
C7_Witness ==
    /\ pc = "done"
    /\ rounds = SCROLL_CAP
    /\ lastGrowth = SCROLL_CAP

(***************************************************************************)
(* C8: when has_next_page was True at least once, the value returned is    *)
(* the rows of the initial read and of the read after each advance, in     *)
(* read order, each content kept where it first occurred.                  *)
(***************************************************************************)
C8_PaginatedResult ==
    pc = "done" /\ everNext =>
        /\ result = firstSeen
        /\ reads = advances + 1
        /\ ~ScrollEntered

\* Two reads, the second repeating a row: page 1 = [A], page 2 = [A, B].
C8_Witness ==
    /\ pc = "done"
    /\ everNext
    /\ advances = 1
    /\ reads = 2
    /\ rereads
    /\ result = <<DataRow(1), DataRow(2)>>

(***************************************************************************)
(* C9: when pagination was never available, the harvest ends through the   *)
(* scroll path, at the idle threshold or the cap, and returns all_rows:    *)
(* every distinct row read in the initial read or in any round.            *)
(***************************************************************************)
C9_ScrollResult ==
    pc = "done" /\ ~everNext =>
        /\ result = all_rows
        /\ result = firstSeen
        /\ ScrollEntered
        /\ reads = rounds + 1
        /\ rounds = SCROLL_CAP \/ idle_rounds >= IdleThreshold

\* Totals that grew to 5 in round 2 and stayed: four rounds, five rows.
C9_Witness ==
    /\ pc = "done"
    /\ ~everNext
    /\ site = "lazy"
    /\ lastGrowth = 2
    /\ rounds = 4
    /\ Len(result) = 5

(***************************************************************************)
(* C10: when the pagination cap is reached with has_next_page still True,  *)
(* no error is raised, the harvest goes on to return, and what it returns  *)
(* is everything accumulated: the initial read plus one read per advance.  *)
(***************************************************************************)
C10_CapExhaustion ==
    pag_i = PAGE_CAP =>
        /\ pc \in {"pag_loop", "pag_done", "done"}
        /\ ~sawFalse
        /\ advances = PAGE_CAP
        /\ reads = PAGE_CAP + 1
        /\ all_rows = firstSeen
        /\ pc = "done" => result = all_rows
        /\ pc # "done" => ENABLED (PagCapReached \/ ReturnPaginated)

\* A harvest ended by the cap that returned two rows.
C10_Witness ==
    /\ pc = "done"
    /\ pag_i = PAGE_CAP
    /\ Len(result) = 2

(***************************************************************************)
(* C11: when has_next_page returned True and the click inside go_next_page *)
(* then raises, the harvest ends with that error: no further advance, read *)
(* or merge is made (the reads stay at one per advance made before) and no *)
(* row sequence is returned.                                               *)
(***************************************************************************)
C11_RaceFailureFatal ==
    clickFailed =>
        /\ pc = "failed"
        /\ result = Unbound
        /\ reads = advances
        /\ hasNextCalls = advances
        /\ ~ENABLED Next

\* The second click raised after two rows had been accumulated.
C11_Witness ==
    /\ clickFailed
    /\ advances = 2
    /\ Len(all_rows) = 2

(***************************************************************************)
(* C12: header stability under shape drift.  For every table read with a   *)
(* header list of length H and every data row of c cells, the row produced *)
(* has exactly H entries: the first min(c, H) cells in order, then empty   *)
(* strings for the missing trailing columns.  Where the table gives no     *)
(* header at all the header list of a row is the synthesized col_0 ..      *)
(* col_<c-1> of its own cells.  The statement fails: two header cells with *)
(* the same text make one dict key, so the row has fewer than H entries.   *)
(***************************************************************************)
EffectiveHeaders(t, cells) ==
    IF headers_and_start(t).headers # <<>>
    THEN headers_and_start(t).headers
    ELSE [i \in 1..Len(cells) |-> ColKey(i - 1)]

C12_Original ==
    (pc = "extracted" /\ select_table(page) # <<>>) =>
        LET t == select_table(page)[1]
            first == headers_and_start(t).row_start_idx
        IN  \A n \in 1..Len(rows_data) :
                LET cells == TrCells(t, first + n - 1)
                    H == Len(EffectiveHeaders(t, cells))
                    row == rows_data[n]
                IN  /\ Len(row) = H
                    /\ \A i \in 1..H :
                           row[i][2] = IF i <= Len(cells)
                                       THEN strip(cells[i]) ELSE EmptyStr

(***************************************************************************)
(* C13: row coverage.  For a table whose header query gives cells and      *)
(* which has M data rows, the read returns exactly M rows, the i-th built  *)
(* from the cells of the i-th data row; when the header query gives        *)
(* nothing and the first row can be read, the first row is the header and  *)
(* all the rows after it are returned.  The statement fails: with the      *)
(* header row in a thead, the rows are counted in the tbody only but       *)
(* indexed over every tr from index 1, so the last data row is not read.   *)
(***************************************************************************)
DataRowsOf(t) ==
    [j \in 1..Len(t.counts) |->
        build_row(headers_and_start(t).headers, DataCells(t, j))]

C13_Original ==
    (pc = "extracted" /\ select_table(page) # <<>>) =>
        LET t == select_table(page)[1]
        IN  /\ HeaderQuery(t) # <<>> => rows_data = DataRowsOf(t)
            /\ (HeaderQuery(t) = <<>> /\ ~t.raises /\ t.shape # "empty")
                   => rows_data = DataRowsOf(t)

(***************************************************************************)
(* C17: has_next_page returns True only when the next affordance exists,   *)
(* is not disabled for is_disabled(), is not matched by the generic        *)
(* disabled marker, and is visible; when one of the four fails it returns  *)
(* False.  The statement fails: the marker is looked for inside the        *)
(* affordance, not on it, so an affordance that carries the marker itself  *)
(* and is no disabled form control is answered True.                       *)
(***************************************************************************)
C17_Original ==
    pc = "answered" =>
        (answer =>
            /\ next_btn.exists
            /\ ~next_btn.disabled
            /\ ~next_btn.marked
            /\ next_btn.visible)

(***************************************************************************)
(* C18: no table is not an error.  When neither the role=table element nor *)
(* the table element exists and is visible, extract_table_rows returns the *)
(* empty list and the merge of that read leaves all_rows and seen_hashes   *)
(* as they were; whenever the role=table element exists and is visible,    *)
(* the rows are read from it and not from the table element.               *)
(***************************************************************************)
NoUsableTable(p) == ~usable(p.aria) /\ ~usable(p.fallback)

C18_NoTableNoError ==
    /\ [](pc \in {"extracted", "merged"} /\ NoUsableTable(page)
             => rows_data = <<>>)
    /\ [][pc = "extracted" /\ NoUsableTable(page)
             => /\ pc' = "merged"
                /\ all_rows' = all_rows
                /\ seen_hashes' = seen_hashes]_vars
    /\ [](pc \in {"extracted", "merged"} /\ usable(page.aria)
             => rows_data = table_rows(page.aria_table))

\* A page with a hidden role=table element and no table element was read
\* and merged into an accumulator of one row.
C18_Witness ==
    /\ pc = "merged"
    /\ page.aria = "hidden"
    /\ page.fallback = "absent"
    /\ rows_data = <<>>
    /\ all_rows = <<DataRow(1)>>
    /\ reads = 2

(***************************************************************************)
(* C14: strict advance-read-merge ordering.  In the pagination loop every  *)
(* advance is followed by exactly one read before the next has_next_page   *)
(* call or advance, so between iterations the reads are the initial one    *)
(* plus one per advance and the has_next_page calls one per iteration; the *)
(* rows of every read made so far are all merged (appended if new, and     *)
(* fingerprinted) whenever a call or advance is issued and when the        *)
(* harvest returns.                                                        *)
(***************************************************************************)
C14_AdvanceReadMerge ==
    /\ pc = "pag_loop" => reads = advances + 1 /\ hasNextCalls = advances
    /\ pc = "go_next" => reads = advances + 1 /\ hasNextCalls = advances + 1
    /\ pc = "pag_read" => reads = advances /\ hasNextCalls = advances
    /\ pc # "initial_read" =>
          /\ pag_i <= advances
          /\ advances <= pag_i + 1
    /\ all_rows = firstSeen
    /\ seen_hashes = Fingerprints(firstSeen)
    /\ pc = "done" /\ paginated =>
          /\ reads = advances + 1
          /\ result = firstSeen

\* Two advances made, each followed by its read, two rows merged.
C14_Witness ==
    /\ pc = "pag_loop"
    /\ advances = 2
    /\ reads = 3
    /\ rereads
    /\ Len(all_rows) = 2

(***************************************************************************)
(* C15: the merge decision.  Two rows get the same fingerprint exactly     *)
(* when they have the same key-to-value content, in whatever order their   *)
(* keys were rendered (a fact of the rows alone, stated where the harvest  *)
(* starts); and from every accumulator with which the harvest calls        *)
(* add_rows, an incoming row is discarded if and only if a row with its    *)
(* content is accumulated already, and is appended otherwise; in the       *)
(* pagination loop and the initial read the same holds for the second row  *)
(* of a batch (the first row again, the first row in the other column      *)
(* order, or another row) against the accumulator and the row before it.   *)
(***************************************************************************)
\* A row with the name of row i and the price of another row.
MixedRow(i) == << <<1, i>>, <<2, (i % NumData) + 1>> >>

MergeRows ==
    {DataRow(i) : i \in 1..NumData} \cup {SwappedRow(i) : i \in 1..NumData}
        \cup {MixedRow(i) : i \in 1..NumData}

Accumulated(rows, row) ==
    \E j \in 1..Len(rows) : Content(rows[j]) = Content(row)

\* The row with its two columns in the other order.
Flip(r) == <<r[2], r[1]>>

MergeOne(r) == add_rows(all_rows, seen_hashes, <<r>>).all_rows

C15_MergeDecision ==
    /\ pc = "initial_read" =>
           \A r, q \in MergeRows :
               (json_dumps(r) = json_dumps(q)) <=> (Content(r) = Content(q))
    /\ pc \in {"initial_read", "pag_read", "scroll_loop"} =>
           \A r \in MergeRows :
               MergeOne(r) = IF Accumulated(all_rows, r) THEN all_rows
                             ELSE Append(all_rows, r)
    /\ pc \in {"initial_read", "pag_read"} =>
           \A r \in MergeRows :
               LET one == MergeOne(r)
               IN  \A q \in {r, Flip(r), MixedRow(1)} :
                       add_rows(all_rows, seen_hashes, <<r, q>>).all_rows
                           = IF Accumulated(one, q) THEN one
                             ELSE Append(one, q)

\* An accumulator holding row 1, about to merge again: the same content in
\* the other column order is discarded, the mixed row is appended.
C15_Witness ==
    /\ pc = "pag_read"
    /\ all_rows = <<DataRow(1)>>
    /\ add_rows(all_rows, seen_hashes, <<SwappedRow(1)>>).all_rows = all_rows
    /\ Len(add_rows(all_rows, seen_hashes, <<MixedRow(1)>>).all_rows) = 2

(***************************************************************************)
(* C16: the scroll idle-round counter.  After every round idle_rounds is   *)
(* the number of rounds since the last round whose total differed from the *)
(* total of the round before; a step adds one to it or resets it to zero;  *)
(* the first round is never idle.                                          *)
(***************************************************************************)
C16_IdleCounter ==
    /\ [](ScrollEntered => idle_rounds = rounds - lastGrowth)
    /\ [](rounds = 1 => idle_rounds = 0)
    /\ [][ScrollEntered =>
             \/ idle_rounds' = idle_rounds
             \/ idle_rounds' = idle_rounds + 1 /\ current_count' = previous_count
             \/ idle_rounds' = 0 /\ current_count' # previous_count]_vars

\* Round 3 was the first round without growth.
C16_Witness ==
    /\ pc = "scroll_tail"
    /\ rounds = 3
    /\ lastGrowth = 2
    /\ idle_rounds = 1

(***************************************************************************)
(* C20: accumulator consistency.  In every reachable state of a harvest    *)
(* seen_hashes is exactly the set of the fingerprints of the rows of       *)
(* all_rows and has as many elements as all_rows has rows: no fingerprint  *)
(* without its row, no row without its fingerprint.                        *)
(***************************************************************************)
C20_AccumulatorConsistent ==
    /\ seen_hashes = Fingerprints(all_rows)
    /\ Cardinality(seen_hashes) = Len(all_rows)
    /\ \A i \in 1..Len(all_rows) : json_dumps(all_rows[i]) \in seen_hashes

\* A lazily loaded table read over several scroll rounds whose windows
\* overlapped: seven rows, seven fingerprints.
C20_Witness ==
    /\ site = "lazy"
    /\ pc = "scroll_tail"
    /\ rereads
    /\ Len(all_rows) = 7
    /\ Cardinality(seen_hashes) = 7

(***************************************************************************)
(* C19: no sharing between invocations.  Every invocation starts with      *)
(* all_rows and seen_hashes empty; what it accumulates and returns is the  *)
(* first occurrences of the rows of its own reads, whatever the invocation *)
(* before it collected.                                                    *)
(***************************************************************************)
C19_NoSharing ==
    /\ pc = "initial_read" => all_rows = <<>> /\ seen_hashes = {}
    /\ all_rows = firstSeen
    /\ seen_hashes = Fingerprints(firstSeen)
    /\ pc = "done" => result = firstSeen

\* The second invocation returned row 1, which the first had collected too.
C19_Witness ==
    /\ earlier = "collected"
    /\ pc = "done"
    /\ Len(result) = 2
    /\ result[1] = DataRow(1)

====
